---- MODULE Spec2Model ----
(***************************************************************************)
(* tgState: the on-demand file cache (control.FileCache), the HTTP         *)
(* delivery handler D with its deferred cache invalidations, and the       *)
(* Range header parser parseRange.                                         *)
(*                                                                         *)
(* Go strings are modelled as sequences of one-character strings, so that  *)
(* strings.Split, strings.TrimSpace, strings.Index and strconv.ParseInt    *)
(* are computed character by character as the library computes them.       *)
(***************************************************************************)
EXTENDS Integers, Sequences, FiniteSets, TLC

(***************************************************************************)
(* Bounds of the model.                                                    *)
(***************************************************************************)
\* longest text after "bytes=" (or longest raw header) given to parseRange
MaxBodyLen == 5
\* largest resource size given to parseRange
MaxSize == 3
\* largest number written into a reference header
MaxNum == 30
\* number of blocks of a remote file (io.Copy writes them one at a time)
FileLen == 2
\* number of clock advances in one behaviour
MaxTicks == 2
\* number of deferred invalidation goroutines alive at once
MaxPending == 2
\* number of requests D handles in one behaviour
MaxRequests == 3
\* unix time at which the cache singleton is constructed
StartTime == 100000
\* longest manifest given to handleBlobDownload
MaxLines == 2
\* number of blocks of a chunk's remote body
ChunkLen == 2
\* most failures of the resolver on a chunk it resolves in the end
MaxResolveFails == 2
\* the retry counter of handleBlobDownload is kept up to this value
MaxRetryCount == 3

(***************************************************************************)
(* Program constants.                                                      *)
(***************************************************************************)
\* control.go:137  expireTime := now - 3600
ExpireAfter == 3600
\* control.go:132  time.NewTicker(5 * time.Minute)
SweepInterval == 300
\* control.go:332  time.Sleep(10 * time.Second)
VideoCleanupDelay == 10
\* control.go:350  time.Sleep(5 * time.Second)
PlainCleanupDelay == 5
\* control.go:329  ra.end >= fileSize-1024*1024
NearEndBytes == 1048576
\* control.go:403  time.Sleep(5 * time.Second)
ResolveBackoff == 5
\* control.go:39   filepath.Join(".", "file_cache")
cacheDir == "file_cache"

VARIABLES
  \* ---- FileCache (control.go:24-29) and the file system under cacheDir
  files,          \* fc.files: fileID -> local path (a function on its key set)
  lastAccess,     \* fc.lastAccess: fileID -> unix seconds
  disk,           \* path -> [exists, data]: the directory entry and its blocks
  now,            \* time.Now().Unix()
  tickBuffered,   \* a tick waits in ticker.C (capacity 1)
  \* ---- one request worker per incoming request (D, getCachedFile)
  requests,       \* requests accepted so far
  pc,             \* worker -> position in D / getCachedFile
  rid,            \* worker -> the id of the request being handled
  written,        \* worker -> blocks io.Copy has written through `out`
  fdLive,         \* worker -> `out` still refers to the file linked at the path
  openSize,       \* worker -> fileInfo.Size() of the file D opened
  openVideo,      \* worker -> the sniffed content type is video/*
  \* ---- periodicCleanup goroutine
  sweepPc, filesToDelete, idsToDelete,
  \* ---- deferred invalidation goroutines spawned by D
  tasks,
  \* ---- history: what the callers of getCachedFile are entitled to
  fresh,          \* id -> a getCachedFile(id) returned a path, with no invalidate
                  \*       and less than ExpireAfter seconds since
  expectHit,      \* worker -> its request began while fresh[rid] held
  \* ---- one call of parseRange
  phase, header, size, parsed,
  \* ---- one request through D (or one call of handleRangeRequest), start to end
  dPc,            \* "off", "request", "responded"
  dHandler,       \* "D" or "handleRangeRequest"
  dPath,          \* r.URL.Path
  dEnv,           \* what the calls of D return: [fetchOk, openOk, statOk, readOk, video]
  dHeader,        \* r.Header.Get("Range")
  dSize,          \* fileInfo.Size(), or len(data)
  dResp,          \* the response written to w
  dCalls,         \* the calls D made: [getCachedFile, handleBlobFile]
  dCached,        \* the id of the request is registered in the cache
  dTask,          \* the invalidation goroutine: [pc, delay, slept]
  dInvalidated,   \* number of calls of cache.cleanupFile(id)
  \* ---- one call of handleBlobDownload
  bPc,            \* "off", "loop", "resolve", "backoff", "get", "copy", "done", "aborted"
  bLines,         \* lines: the manifest
  bStart,         \* startLine
  bI,             \* i, the index of the line in hand (from 0, as in the code)
  bRetry,         \* reTry
  bCopied,        \* blocks io.Copy has written of the chunk in hand
  bStatus,        \* the status line sent, 0 while none is
  bOut,           \* what has been written to w, in order
  bWaited,        \* seconds slept before the attempt in hand
  bFailsLeft,     \* chunk -> failures the resolver still answers, -1: for ever
  bFetch,         \* chunk -> "ok", "getError", "copyError"
  \* ---- the locks of one FileCache and the goroutines that use it
  lVariant,       \* "control" (control.go) or "utils" (utils.go), "none" before
  lProg,          \* goroutine -> the operations of the call it is in, in order
  lPc,            \* goroutine -> how many of them it has done
  lockW,          \* the goroutine holding the RWMutex for writing, or "none"
  lockR,          \* the goroutines holding the RWMutex for reading
  cleanupHeld     \* the goroutine holding cleanupLock (utils.go:26), or "none"

cacheVars == <<files, lastAccess, disk, now, tickBuffered, requests, pc, rid, written,
               fdLive, openSize, openVideo, sweepPc, filesToDelete,
               idsToDelete, tasks, fresh, expectHit>>
rangeVars == <<phase, header, size, parsed>>
deliveryVars == <<dPc, dHandler, dPath, dEnv, dHeader, dSize, dResp, dCalls, dCached,
                  dTask, dInvalidated>>
blobVars == <<bPc, bLines, bStart, bI, bRetry, bCopied, bStatus, bOut, bWaited, bFailsLeft, bFetch>>
lockVars == <<lVariant, lProg, lPc, lockW, lockR, cleanupHeld>>
vars == <<cacheVars, rangeVars, deliveryVars, blobVars, lockVars>>

(***************************************************************************)
(* Go string library, on sequences of characters.                          *)
(***************************************************************************)
Digits == <<"0", "1", "2", "3", "4", "5", "6", "7", "8", "9">>

IsDigit(c) == \E d \in 1..10 : Digits[d] = c

DigitVal(c) == (CHOOSE d \in 1..10 : Digits[d] = c) - 1

\* strings.HasPrefix
HasPrefix(s, p) == Len(s) >= Len(p) /\ SubSeq(s, 1, Len(p)) = p

\* strings.Index(s, c) for a one-character c: 0-based, -1 when absent
Index(s, c) ==
  IF \E i \in 1..Len(s) : s[i] = c
  THEN (CHOOSE i \in 1..Len(s) : s[i] = c /\ \A j \in 1..(i - 1) : s[j] # c) - 1
  ELSE -1

IsSpace(c) == c \in {" ", "\t", "\n", "\r"}

RECURSIVE TrimLeft(_)
TrimLeft(s) == IF s # <<>> /\ IsSpace(s[1]) THEN TrimLeft(Tail(s)) ELSE s

RECURSIVE TrimRight(_)
TrimRight(s) ==
  IF s # <<>> /\ IsSpace(s[Len(s)]) THEN TrimRight(SubSeq(s, 1, Len(s) - 1)) ELSE s

\* strings.TrimSpace
TrimSpace(s) == TrimRight(TrimLeft(s))

\* strings.Split(s, sep) for a one-character sep: never empty, Split("") = [""]
RECURSIVE Split(_, _)
Split(s, sep) ==
  LET i == Index(s, sep) IN
  IF i < 0 THEN <<s>>
  ELSE <<SubSeq(s, 1, i)>> \o Split(SubSeq(s, i + 2, Len(s)), sep)

\* strconv.ParseUint(s, 10, 64): digits only, at least one
RECURSIVE UintVal(_)
UintVal(s) == IF s = <<>> THEN 0 ELSE 10 * UintVal(SubSeq(s, 1, Len(s) - 1)) + DigitVal(s[Len(s)])

ParseUint(s) ==
  IF s = <<>> \/ \E i \in 1..Len(s) : ~IsDigit(s[i])
  THEN [err |-> TRUE, val |-> 0]
  ELSE [err |-> FALSE, val |-> UintVal(s)]

\* strconv.ParseInt(s, 10, 64): an optional sign, then ParseUint. The inputs of
\* the model are far too short to leave the int64 range.
ParseInt(s) ==
  IF s = <<>> THEN [err |-> TRUE, val |-> 0]
  ELSE LET neg == s[1] = "-"
           body == IF s[1] \in {"+", "-"} THEN Tail(s) ELSE s
           u == ParseUint(body)
       IN IF u.err THEN u
          ELSE [err |-> FALSE, val |-> IF neg THEN 0 - u.val ELSE u.val]

(***************************************************************************)
(* parseRange (control.go:427-501)                                         *)
(***************************************************************************)
BytesPrefix == <<"b", "y", "t", "e", "s", "=">>

\* httpRange{start, end, length}, length set at control.go:486
httpRange(start, end) == [start |-> start, end |-> end, length |-> end - start + 1]

InvalidRange == [err |-> TRUE, ranges |-> <<>>]

\* control.go:453-463, a spec with nothing before the dash ("-100")
SuffixRangeUnclamped(end, sz) ==
  LET p == ParseInt(end) IN
  IF p.err THEN [err |-> TRUE, r |-> httpRange(0, 0)]
  ELSE [err |-> FALSE, r |-> httpRange(sz - p.val, sz - 1)]

SuffixRange(end, sz) ==
  LET p == ParseInt(end) IN
  IF p.err THEN [err |-> TRUE, r |-> httpRange(0, 0)]
  ELSE LET i == IF p.val > sz THEN sz ELSE p.val
       IN [err |-> FALSE, r |-> httpRange(sz - i, sz - 1)]

\* control.go:464-484, a spec with a start ("5-", "5-9")
StartRange(start, end, sz) ==
  LET p == ParseInt(start) IN
  IF p.err \/ p.val >= sz \/ p.val < 0 THEN [err |-> TRUE, r |-> httpRange(0, 0)]
  ELSE IF end = <<>> THEN [err |-> FALSE, r |-> httpRange(p.val, sz - 1)]
  ELSE LET q == ParseInt(end) IN
       IF q.err \/ q.val >= sz \/ q.val < 0 THEN [err |-> TRUE, r |-> httpRange(0, 0)]
       ELSE IF q.val < p.val THEN [err |-> TRUE, r |-> httpRange(0, 0)]
       ELSE [err |-> FALSE, r |-> httpRange(p.val, q.val)]

\* control.go:445-486, one non-empty spec of the list
parseOne(ra, sz) ==
  LET i == Index(ra, "-") IN
  IF i < 0 THEN [err |-> TRUE, r |-> httpRange(0, 0)]
  ELSE LET start == TrimSpace(SubSeq(ra, 1, i))
           end == TrimSpace(SubSeq(ra, i + 2, Len(ra)))
       IN IF start = <<>> THEN SuffixRange(end, sz) ELSE StartRange(start, end, sz)

\* control.go:439-493, the loop from the k-th spec on: an error returns at once,
\* a whole-resource range is appended and breaks the loop with noOverlap set
RECURSIVE parseLoop(_, _, _, _)
parseLoop(specs, k, ranges, sz) ==
  IF k > Len(specs) THEN [err |-> FALSE, ranges |-> ranges, noOverlap |-> FALSE]
  ELSE LET ra == TrimSpace(specs[k]) IN
       IF ra = <<>> THEN parseLoop(specs, k + 1, ranges, sz)
       ELSE LET one == parseOne(ra, sz) IN
            IF one.err THEN [err |-> TRUE, ranges |-> <<>>, noOverlap |-> FALSE]
            ELSE IF one.r.start = 0 /\ one.r.end = sz - 1
                 THEN [err |-> FALSE, ranges |-> Append(ranges, one.r), noOverlap |-> TRUE]
                 ELSE parseLoop(specs, k + 1, Append(ranges, one.r), sz)

\* control.go:495-500
parseResult(l) ==
  IF l.err THEN InvalidRange
  ELSE IF l.noOverlap /\ Len(l.ranges) > 1
       THEN [err |-> FALSE, ranges |-> SubSeq(l.ranges, 1, 1)]
       ELSE [err |-> FALSE, ranges |-> l.ranges]

parseRange(s, sz) ==
  IF s = <<>> THEN [err |-> FALSE, ranges |-> <<>>]
  ELSE IF ~HasPrefix(s, BytesPrefix) THEN InvalidRange
  ELSE parseResult(parseLoop(Split(SubSeq(s, Len(BytesPrefix) + 1, Len(s)), ","), 1, <<>>, sz))

(***************************************************************************)
(* D, after getCachedFile returned (control.go:298-353): the status it     *)
(* answers with and the delay of the invalidation it schedules (0: none).  *)
(***************************************************************************)
\* the range branch taken whatever the sniffed type
DOutcomeRangeForAll(isVideo, rangeHeader, fileSize) ==
  IF rangeHeader # <<>>
  THEN LET p == parseRange(rangeHeader, fileSize) IN
       IF p.err \/ Len(p.ranges) # 1
       THEN [status |-> 200, cleanup |-> 0]
       ELSE LET ra == p.ranges[1] IN
            [status |-> 206,
             cleanup |-> IF ra.end >= fileSize - 1 \/ ra.end >= fileSize - NearEndBytes
                         THEN VideoCleanupDelay ELSE 0]
  ELSE [status |-> 200, cleanup |-> IF isVideo THEN 0 ELSE PlainCleanupDelay]

\* the first of several ranges honoured
DOutcomeFirstOfMany(isVideo, rangeHeader, fileSize) ==
  IF isVideo /\ rangeHeader # <<>>
  THEN LET p == parseRange(rangeHeader, fileSize) IN
       IF p.err \/ Len(p.ranges) < 1
       THEN [status |-> 200, cleanup |-> 0]
       ELSE LET ra == p.ranges[1] IN
            [status |-> 206,
             cleanup |-> IF ra.end >= fileSize - 1 \/ ra.end >= fileSize - NearEndBytes
                         THEN VideoCleanupDelay ELSE 0]
  ELSE [status |-> 200, cleanup |-> IF isVideo THEN 0 ELSE PlainCleanupDelay]

\* the invalidation of the non-video branch started for videos served whole too
DOutcomeAlwaysCleanup(isVideo, rangeHeader, fileSize) ==
  IF isVideo /\ rangeHeader # <<>>
  THEN LET p == parseRange(rangeHeader, fileSize) IN
       IF p.err \/ Len(p.ranges) # 1
       THEN [status |-> 200, cleanup |-> 0]
       ELSE LET ra == p.ranges[1] IN
            [status |-> 206,
             cleanup |-> IF ra.end >= fileSize - 1 \/ ra.end >= fileSize - NearEndBytes
                         THEN VideoCleanupDelay ELSE 0]
  ELSE [status |-> 200, cleanup |-> PlainCleanupDelay]

DOutcome(isVideo, rangeHeader, fileSize) ==
  IF isVideo /\ rangeHeader # <<>>
  THEN LET p == parseRange(rangeHeader, fileSize) IN
       IF p.err \/ Len(p.ranges) # 1
       THEN [status |-> 200, cleanup |-> 0]
       ELSE LET ra == p.ranges[1] IN
            [status |-> 206,
             cleanup |-> IF ra.end >= fileSize - 1 \/ ra.end >= fileSize - NearEndBytes
                         THEN VideoCleanupDelay ELSE 0]
  ELSE [status |-> 200, cleanup |-> IF isVideo THEN 0 ELSE PlainCleanupDelay]

(***************************************************************************)
(* The cache, its callers and the file system.                             *)
(***************************************************************************)
\* request workers are interchangeable goroutines: a new request is given to the
\* first idle one
Workers == {1, 2}
Ids == {"vid", "doc"}
NoId == "none"

\* filepath.Join(fc.cacheDir, fileID), control.go:79
PathOf(id) == <<cacheDir, id>>
Paths == {PathOf(id) : id \in Ids}

Blocks == 1..FileLen
NoFile == [exists |-> FALSE, data |-> {}]
EmptyFile == [exists |-> TRUE, data |-> {}]

\* the remote object behind an id: "vid" starts with a video signature
RemoteIsVideo(id) == id = "vid"

\* Go map assignment m[k] = v and delete(m, k)
MapPut(m, k, v) == [x \in DOMAIN m \cup {k} |-> IF x = k THEN v ELSE m[x]]
MapDelete(m, k) == [x \in DOMAIN m \ {k} |-> m[x]]

\* os.Remove(path): the name goes; a descriptor opened on it keeps an unlinked
\* file, and what is written through it no longer shows at the path
Unlink(path) == [disk EXCEPT ![path] = NoFile]
DetachWriters(path) == [w \in Workers |-> fdLive[w] /\ PathOf(rid[w]) # path]

\* fileInfo.Size(): up to the last block written (blocks before it may be holes)
FileSize(f) == IF f.data = {} THEN 0 ELSE CHOOSE n \in f.data : \A m \in f.data : m <= n
Complete(f) == f.exists /\ f.data = Blocks

RequestHeaders ==
  { <<>>,
    BytesPrefix \o <<"0", "-">>,
    BytesPrefix \o <<"0", "-", "0", ",", "1", "-">> }

TaskSlots == 1..MaxPending
\* touched is history: getCachedFile(id) returned a path after the invalidation
\* was scheduled
FreeTask == [pc |-> "free", id |-> NoId, due |-> 0, touched |-> FALSE]
Retouched(id) ==
  [s \in TaskSlots |-> IF tasks[s].pc = "sleep" /\ tasks[s].id = id
                       THEN [tasks[s] EXCEPT !.touched = TRUE] ELSE tasks[s]]
FreeSlot == CHOOSE s \in TaskSlots : tasks[s].pc = "free" /\ \A t \in 1..(s - 1) : tasks[t].pc # "free"

CacheInit ==
  /\ files = <<>>
  /\ lastAccess = <<>>
  /\ disk = [p \in Paths |-> NoFile]
  /\ now = StartTime
  /\ tickBuffered = FALSE
  /\ requests = 0
  /\ pc = [w \in Workers |-> "idle"]
  /\ rid = [w \in Workers |-> NoId]
  /\ written = [w \in Workers |-> 0]
  /\ fdLive = [w \in Workers |-> FALSE]
  /\ openSize = [w \in Workers |-> 0]
  /\ openVideo = [w \in Workers |-> FALSE]
  /\ sweepPc = "wait"
  /\ filesToDelete = {}
  /\ idsToDelete = {}
  /\ tasks = [s \in TaskSlots |-> FreeTask]
  /\ fresh = [i \in Ids |-> FALSE]
  /\ expectHit = [w \in Workers |-> FALSE]

sweepVars == <<sweepPc, filesToDelete, idsToDelete>>
clockVars == <<now, tickBuffered>>
openVars == <<openSize, openVideo>>
outVars == <<written, fdLive>>

\* D, control.go:235-257, for a plain (non-manifest) identifier, and the lookup
\* of getCachedFile, control.go:57-61
DStart(w, id) ==
  /\ pc[w] = "idle"
  /\ \A v \in Workers : v < w => pc[v] # "idle"
  /\ requests < MaxRequests
  /\ requests' = requests + 1
  /\ pc' = [pc EXCEPT ![w] = IF id \in DOMAIN files THEN "stat" ELSE "fetch"]
  /\ rid' = [rid EXCEPT ![w] = id]
  /\ expectHit' = [expectHit EXCEPT ![w] = fresh[id]]
  /\ UNCHANGED <<files, lastAccess, disk, clockVars, outVars, openVars, sweepVars,
                 tasks, fresh, rangeVars, deliveryVars, blobVars, lockVars>>

\* getCachedFile, control.go:63: os.Stat of the path read from the map
Stat(w) ==
  /\ pc[w] = "stat"
  /\ pc' = [pc EXCEPT ![w] = IF disk[PathOf(rid[w])].exists THEN "touch" ELSE "fetch"]
  /\ UNCHANGED <<files, lastAccess, disk, clockVars, requests, rid, outVars, openVars,
                 expectHit, sweepVars, tasks, fresh, rangeVars, deliveryVars, blobVars, lockVars>>

\* getCachedFile, control.go:65-68: the hit
Touch(w) ==
  /\ pc[w] = "touch"
  /\ lastAccess' = MapPut(lastAccess, rid[w], now)
  /\ pc' = [pc EXCEPT ![w] = "open"]
  /\ fresh' = [fresh EXCEPT ![rid[w]] = TRUE]
  /\ tasks' = Retouched(rid[w])
  /\ UNCHANGED <<files, disk, clockVars, requests, rid, outVars, openVars, expectHit,
                 sweepVars, rangeVars, deliveryVars, blobVars, lockVars>>

\* getCachedFile returns an error and D answers 500 (control.go:258-262), or
\* os.Open fails and D answers 500 (control.go:266-270)
Fail(w, at) ==
  /\ pc' = [pc EXCEPT ![w] = at]
  /\ rid' = [rid EXCEPT ![w] = NoId]
  /\ expectHit' = [expectHit EXCEPT ![w] = FALSE]

\* getCachedFile, control.go:73-76: utils.GetDownloadUrl reports failure
ResolveFail(w) ==
  /\ pc[w] = "fetch"
  /\ Fail(w, "fetchErr")
  /\ UNCHANGED <<files, lastAccess, disk, clockVars, requests, outVars, openVars,
                 sweepVars, tasks, fresh, rangeVars, deliveryVars, blobVars, lockVars>>

\* getCachedFile, control.go:73-83: the URL is resolved and os.Create fails
CreateFail(w) ==
  /\ pc[w] = "fetch"
  /\ Fail(w, "fetchErr")
  /\ UNCHANGED <<files, lastAccess, disk, clockVars, requests, outVars, openVars,
                 sweepVars, tasks, fresh, rangeVars, deliveryVars, blobVars, lockVars>>

\* getCachedFile, control.go:73-84: the URL is resolved and os.Create truncates
\* the file linked at the path, or links a new empty one
Create(w) ==
  /\ pc[w] = "fetch"
  /\ disk' = [disk EXCEPT ![PathOf(rid[w])] = EmptyFile]
  /\ fdLive' = [fdLive EXCEPT ![w] = TRUE]
  /\ written' = [written EXCEPT ![w] = 0]
  /\ pc' = [pc EXCEPT ![w] = "copy"]
  /\ expectHit' = [expectHit EXCEPT ![w] = FALSE]
  /\ UNCHANGED <<files, lastAccess, clockVars, requests, rid, openVars,
                 sweepVars, tasks, fresh, rangeVars, deliveryVars, blobVars, lockVars>>

\* getCachedFile, control.go:99: io.Copy writes the next block at the offset of
\* `out`; the write shows at the path only while `out` is the file linked there
CopyBlock(w) ==
  /\ pc[w] = "copy"
  /\ written[w] < FileLen
  /\ written' = [written EXCEPT ![w] = @ + 1]
  /\ disk' = IF fdLive[w]
             THEN [disk EXCEPT ![PathOf(rid[w])].data = @ \cup {written[w] + 1}]
             ELSE disk
  /\ UNCHANGED <<files, lastAccess, clockVars, requests, pc, rid, fdLive, openVars,
                 expectHit, sweepVars, tasks, fresh, rangeVars, deliveryVars, blobVars, lockVars>>

\* getCachedFile, control.go:99-104: io.Copy reaches the end of the body
CopyEOF(w) ==
  /\ pc[w] = "copy"
  /\ written[w] = FileLen
  /\ pc' = [pc EXCEPT ![w] = "register"]
  /\ UNCHANGED <<files, lastAccess, disk, clockVars, requests, rid, outVars, openVars,
                 expectHit, sweepVars, tasks, fresh, rangeVars, deliveryVars, blobVars, lockVars>>

\* getCachedFile, control.go:87-88, 94, 99-100: http.Get fails, the status is not
\* 200, or io.Copy fails after any number of blocks
DownloadFail(w) ==
  /\ pc[w] = "copy"
  /\ pc' = [pc EXCEPT ![w] = "rm"]
  /\ UNCHANGED <<files, lastAccess, disk, clockVars, requests, rid, outVars, openVars,
                 expectHit, sweepVars, tasks, fresh, rangeVars, deliveryVars, blobVars, lockVars>>

\* getCachedFile, control.go:89-90, 95-96, 101-102: os.Remove(filePath), the
\* error is returned and `out` closed
RemovePartialSkipped(w) ==
  /\ pc[w] = "rm"
  /\ Fail(w, "fetchErr")
  /\ fdLive' = [fdLive EXCEPT ![w] = FALSE]
  /\ written' = [written EXCEPT ![w] = 0]
  /\ UNCHANGED <<files, lastAccess, disk, clockVars, requests, openVars,
                 sweepVars, tasks, fresh, rangeVars, deliveryVars, blobVars, lockVars>>

RemovePartial(w) ==
  /\ pc[w] = "rm"
  /\ disk' = Unlink(PathOf(rid[w]))
  /\ fdLive' = [DetachWriters(PathOf(rid[w])) EXCEPT ![w] = FALSE]
  /\ written' = [written EXCEPT ![w] = 0]
  /\ Fail(w, "fetchErr")
  /\ UNCHANGED <<files, lastAccess, clockVars, requests, openVars,
                 sweepVars, tasks, fresh, rangeVars, deliveryVars, blobVars, lockVars>>

\* getCachedFile, control.go:106-111: the entry is registered, the path
\* returned and `out` closed
Register(w) ==
  /\ pc[w] = "register"
  /\ files' = MapPut(files, rid[w], PathOf(rid[w]))
  /\ lastAccess' = MapPut(lastAccess, rid[w], now)
  /\ fdLive' = [fdLive EXCEPT ![w] = FALSE]
  /\ written' = [written EXCEPT ![w] = 0]
  /\ pc' = [pc EXCEPT ![w] = "open"]
  /\ fresh' = [fresh EXCEPT ![rid[w]] = TRUE]
  /\ tasks' = Retouched(rid[w])
  /\ UNCHANGED <<disk, clockVars, requests, rid, openVars, expectHit, sweepVars,
                 rangeVars, deliveryVars, blobVars, lockVars>>

\* the request is over
EndRequest(w) ==
  /\ pc' = [pc EXCEPT ![w] = "idle"]
  /\ rid' = [rid EXCEPT ![w] = NoId]
  /\ openSize' = [openSize EXCEPT ![w] = 0]
  /\ openVideo' = [openVideo EXCEPT ![w] = FALSE]
  /\ expectHit' = [expectHit EXCEPT ![w] = FALSE]

\* D, control.go:260-261 and 268-269: the 500 is written, D returns
Reply500(w) ==
  /\ pc[w] \in {"fetchErr", "openErr"}
  /\ EndRequest(w)
  /\ UNCHANGED <<files, lastAccess, disk, clockVars, requests, outVars, sweepVars,
                 tasks, fresh, rangeVars, deliveryVars, blobVars, lockVars>>

\* D, control.go:265-299: os.Open, file.Stat, the sniff of the first bytes
Open(w) ==
  /\ pc[w] = "open"
  /\ LET f == disk[PathOf(rid[w])] IN
     IF f.exists
     THEN /\ openSize' = [openSize EXCEPT ![w] = FileSize(f)]
          /\ openVideo' = [openVideo EXCEPT ![w] = RemoteIsVideo(rid[w]) /\ 1 \in f.data]
          /\ pc' = [pc EXCEPT ![w] = "serve"]
          /\ UNCHANGED <<rid, expectHit>>
     ELSE /\ Fail(w, "openErr")
          /\ UNCHANGED openVars
  /\ UNCHANGED <<files, lastAccess, disk, clockVars, requests, outVars,
                 sweepVars, tasks, fresh, rangeVars, deliveryVars, blobVars, lockVars>>

\* D, control.go:302-353: the body is streamed, then the invalidation goroutine
\* is started where the code starts one
Serve(w) ==
  /\ pc[w] = "serve"
  /\ \E h \in RequestHeaders :
       LET out == DOutcome(openVideo[w], h, openSize[w]) IN
       IF out.cleanup > 0
       THEN /\ \E s \in TaskSlots : tasks[s].pc = "free"
            /\ tasks' = [tasks EXCEPT ![FreeSlot] =
                           [pc |-> "sleep", id |-> rid[w], due |-> now + out.cleanup,
                            touched |-> FALSE]]
       ELSE tasks' = tasks
  /\ EndRequest(w)
  /\ UNCHANGED <<files, lastAccess, disk, clockVars, requests, outVars, sweepVars,
                 fresh, rangeVars, deliveryVars, blobVars, lockVars>>

(***************************************************************************)
(* Deferred invalidation: go func() { time.Sleep(d); cache.cleanupFile(id) }*)
(***************************************************************************)
\* a request waiting for a hit on id loses its claim to one when
\* cleanupFile(id) is called
Invalidated(id) == [w \in Workers |-> expectHit[w] /\ rid[w] # id]

\* cleanupFile, control.go:116-122, once the sleep is over; `exists` false ends it
CleanupLockedIfStale(s) ==
  LET id == tasks[s].id
      exists == id \in DOMAIN files /\ ~tasks[s].touched
  IN /\ tasks[s].pc = "sleep"
     /\ now >= tasks[s].due
     /\ files' = IF exists THEN MapDelete(files, id) ELSE files
     /\ lastAccess' = IF exists THEN MapDelete(lastAccess, id) ELSE lastAccess
     /\ tasks' = [tasks EXCEPT ![s] = IF exists THEN [@ EXCEPT !.pc = "remove"] ELSE FreeTask]
     /\ fresh' = [fresh EXCEPT ![id] = FALSE]
     /\ expectHit' = Invalidated(id)
     /\ UNCHANGED <<disk, clockVars, requests, pc, rid, outVars, openVars, sweepVars,
                    rangeVars, deliveryVars, blobVars, lockVars>>

CleanupLocked(s) ==
  LET id == tasks[s].id
      exists == id \in DOMAIN files
  IN /\ tasks[s].pc = "sleep"
     /\ now >= tasks[s].due
     /\ files' = IF exists THEN MapDelete(files, id) ELSE files
     /\ lastAccess' = IF exists THEN MapDelete(lastAccess, id) ELSE lastAccess
     /\ tasks' = [tasks EXCEPT ![s] = IF exists THEN [@ EXCEPT !.pc = "remove"] ELSE FreeTask]
     /\ fresh' = [fresh EXCEPT ![id] = FALSE]
     /\ expectHit' = Invalidated(id)
     /\ UNCHANGED <<disk, clockVars, requests, pc, rid, outVars, openVars, sweepVars,
                    rangeVars, deliveryVars, blobVars, lockVars>>

\* cleanupFile, control.go:124-127: os.Remove of the path read under the lock
CleanupRemove(s) ==
  /\ tasks[s].pc = "remove"
  /\ disk' = Unlink(PathOf(tasks[s].id))
  /\ fdLive' = DetachWriters(PathOf(tasks[s].id))
  /\ tasks' = [tasks EXCEPT ![s] = FreeTask]
  /\ UNCHANGED <<files, lastAccess, clockVars, requests, pc, rid, written, openVars,
                 expectHit, sweepVars, fresh, rangeVars, deliveryVars, blobVars, lockVars>>

(***************************************************************************)
(* periodicCleanup (control.go:131-170), one pass per tick of the ticker   *)
(***************************************************************************)
\* control.go:143-149: the entries the scan lists
Expired(t) ==
  {id \in DOMAIN lastAccess : lastAccess[id] < t - ExpireAfter /\ id \in DOMAIN files}

\* control.go:135-151
SweepScan ==
  /\ sweepPc = "wait"
  /\ tickBuffered
  /\ tickBuffered' = FALSE
  /\ idsToDelete' = Expired(now)
  /\ filesToDelete' = {files[id] : id \in Expired(now)}
  /\ sweepPc' = "remove"
  /\ UNCHANGED <<files, lastAccess, disk, now, requests, pc, rid, outVars, openVars,
                 expectHit, tasks, fresh, rangeVars, deliveryVars, blobVars, lockVars>>

\* control.go:154-156: one os.Remove of the list (map iteration left it in any order)
SweepRemove ==
  /\ sweepPc = "remove"
  /\ \E p \in filesToDelete :
       /\ disk' = Unlink(p)
       /\ fdLive' = DetachWriters(p)
       /\ filesToDelete' = filesToDelete \ {p}
  /\ UNCHANGED <<files, lastAccess, clockVars, requests, pc, rid, written, openVars,
                 expectHit, sweepPc, idsToDelete, tasks, fresh, rangeVars, deliveryVars, blobVars, lockVars>>

\* control.go:159-164, then back to the ticker
SweepUpdate ==
  /\ sweepPc = "remove"
  /\ filesToDelete = {}
  /\ files' = [x \in DOMAIN files \ idsToDelete |-> files[x]]
  /\ lastAccess' = [x \in DOMAIN lastAccess \ idsToDelete |-> lastAccess[x]]
  /\ idsToDelete' = {}
  /\ sweepPc' = "wait"
  /\ UNCHANGED <<disk, clockVars, requests, pc, rid, outVars, openVars, expectHit,
                 filesToDelete, tasks, fresh, rangeVars, deliveryVars, blobVars, lockVars>>

(***************************************************************************)
(* The clock. It advances by the shortest delay of the program or by the   *)
(* inactivity threshold; the ticker started at StartTime sends a tick each *)
(* SweepInterval seconds and drops it when one is already waiting.         *)
(***************************************************************************)
TickSteps == {PlainCleanupDelay, ExpireAfter}

TicksUsed ==
  LET d == now - StartTime
  IN (d \div ExpireAfter) + ((d % ExpireAfter) \div PlainCleanupDelay)

Tick(step) ==
  /\ TicksUsed < MaxTicks
  /\ now' = now + step
  /\ tickBuffered' = (tickBuffered \/
        (now + step - StartTime) \div SweepInterval > (now - StartTime) \div SweepInterval)
  /\ fresh' = IF step >= ExpireAfter THEN [i \in Ids |-> FALSE] ELSE fresh
  /\ expectHit' = IF step >= ExpireAfter THEN [w \in Workers |-> FALSE] ELSE expectHit
  /\ UNCHANGED <<files, lastAccess, disk, requests, pc, rid, outVars, openVars,
                 sweepVars, tasks, rangeVars, deliveryVars, blobVars, lockVars>>

(***************************************************************************)
(* The state of one request through D before any request is made; the     *)
(* specifications that do not run D stay in it.                            *)
(***************************************************************************)
\* conf.go:16  const FileRoute = "/d/"
FileRoute == <<"/", "d", "/">>

\* what was written to the http.ResponseWriter: the status, the headers the
\* handlers set, and the body as a text or as `len` bytes of the file from `from`
NoBody == [kind |-> "none", from |-> 0, len |-> 0, text |-> ""]
TextBody(t) == [kind |-> "text", from |-> 0, len |-> 0, text |-> t]
FileBody(from, n) == [kind |-> "file", from |-> from, len |-> n, text |-> ""]
NoResp ==
  [status |-> 0, acceptRanges |-> "", contentRange |-> <<>>, hasLength |-> FALSE,
   contentLength |-> 0, body |-> NoBody, panicked |-> FALSE]

AllOk == [fetchOk |-> TRUE, openOk |-> TRUE, statOk |-> TRUE, readOk |-> TRUE, video |-> TRUE]

NoCalls == [getCachedFile |-> FALSE, handleBlobFile |-> FALSE]
NoTask == [pc |-> "none", delay |-> 0, slept |-> 0]

DeliveryIdle ==
  /\ dPc = "off"
  /\ dHandler = "D"
  /\ dPath = FileRoute
  /\ dEnv = AllOk
  /\ dHeader = <<>>
  /\ dSize = 0
  /\ dResp = NoResp
  /\ dCalls = NoCalls
  /\ dCached = FALSE
  /\ dTask = NoTask
  /\ dInvalidated = 0

\* the chunks a manifest can list
Chunks == {"a", "b"}
\* before handleBlobDownload is called
BlobIdle ==
  /\ bPc = "off"
  /\ bLines = <<>>
  /\ bStart = 0
  /\ bI = 0
  /\ bRetry = 0
  /\ bCopied = 0
  /\ bStatus = 0
  /\ bOut = <<>>
  /\ bWaited = 0
  /\ bFailsLeft = [c \in Chunks |-> 0]
  /\ bFetch = [c \in Chunks |-> "ok"]

\* the goroutines that use one FileCache: two request workers, one deferred
\* invalidation, the periodicCleanup goroutine
Goroutines == {"worker1", "worker2", "invalidation", "sweep"}
\* before any of them has called the cache
LockIdle ==
  /\ lVariant = "none"
  /\ lProg = [g \in Goroutines |-> <<>>]
  /\ lPc = [g \in Goroutines |-> 0]
  /\ lockW = "none"
  /\ lockR = {}
  /\ cleanupHeld = "none"

RangeIdle ==
  /\ phase = "off"
  /\ header = <<>>
  /\ size = 0
  /\ parsed = [err |-> FALSE, ranges |-> <<>>]

Init == CacheInit /\ RangeIdle /\ DeliveryIdle /\ BlobIdle /\ LockIdle

Next ==
  \/ \E w \in Workers, id \in Ids : DStart(w, id)
  \/ \E w \in Workers : Stat(w)
  \/ \E w \in Workers : Touch(w)
  \/ \E w \in Workers : ResolveFail(w)
  \/ \E w \in Workers : CreateFail(w)
  \/ \E w \in Workers : Create(w)
  \/ \E w \in Workers : CopyBlock(w)
  \/ \E w \in Workers : CopyEOF(w)
  \/ \E w \in Workers : DownloadFail(w)
  \/ \E w \in Workers : RemovePartial(w)
  \/ \E w \in Workers : Register(w)
  \/ \E w \in Workers : Reply500(w)
  \/ \E w \in Workers : Open(w)
  \/ \E w \in Workers : Serve(w)
  \/ \E s \in TaskSlots : CleanupLocked(s)
  \/ \E s \in TaskSlots : CleanupRemove(s)
  \/ SweepScan
  \/ SweepRemove
  \/ SweepUpdate
  \/ \E step \in TickSteps : Tick(step)

\* the cache under any interleaving of requests, sweeps and invalidations
Spec == Init /\ [][Next]_vars

\* the steps of goroutines already started: a request in getCachedFile or D,
\* a deferred cleanupFile, the periodicCleanup loop (control.go:44, 331-334,
\* 349-352); new requests and the passing of time are left out
CacheProgress ==
  \/ \E w \in Workers :
       \/ Stat(w) \/ Touch(w) \/ ResolveFail(w) \/ CreateFail(w) \/ Create(w)
       \/ CopyBlock(w) \/ CopyEOF(w) \/ DownloadFail(w) \/ RemovePartial(w)
       \/ Register(w) \/ Reply500(w) \/ Open(w) \/ Serve(w)
  \/ \E s \in TaskSlots : CleanupLocked(s) \/ CleanupRemove(s)
  \/ SweepScan \/ SweepRemove \/ SweepUpdate

\* the cache when every started goroutine keeps being scheduled
LiveSpec == Spec /\ WF_vars(CacheProgress)

(***************************************************************************)
(* parseRange as a function of its inputs: every header of the alphabet up *)
(* to MaxBodyLen characters, with and without the "bytes=" prefix.         *)
(***************************************************************************)
RangeAlphabet == {"0", "1", "2", "-", ",", " ", "x"}

Bodies == UNION {[1..n -> RangeAlphabet] : n \in 0..MaxBodyLen}

RangeInit ==
  /\ CacheInit
  /\ DeliveryIdle
  /\ BlobIdle
  /\ LockIdle
  /\ phase = "input"
  /\ \E b \in Bodies : header \in {b, BytesPrefix \o b}
  /\ size \in 0..MaxSize
  /\ parsed = [err |-> FALSE, ranges |-> <<>>]

ParseCall ==
  /\ phase = "input"
  /\ parsed' = parseRange(header, size)
  /\ phase' = "parsed"
  /\ UNCHANGED <<header, size, cacheVars, deliveryVars, blobVars, lockVars>>

RangeSpec == RangeInit /\ [][ParseCall]_vars

(***************************************************************************)
(* One request through the delivery handler D (control.go:235-354), or one *)
(* call of handleRangeRequest (control.go:364-392), from the request to    *)
(* the end of the invalidation goroutine it starts.                        *)
(***************************************************************************)
\* control.go:250  strings.HasPrefix(id, "blob-")
BlobPrefix == <<"b", "l", "o", "b", "-">>

\* strings.TrimPrefix
TrimPrefix(s, p) == IF HasPrefix(s, p) THEN SubSeq(s, Len(p) + 1, Len(s)) ELSE s

\* http.Error(w, msg, code), and the 404 of control.go:240-242
ErrorResp(code, msg) == [NoResp EXCEPT !.status = code, !.body = TextBody(msg)]

\* io.CopyN(w, file, n) after file.Seek(from): the bytes it sends of a file of sz bytes
CopyN(from, n, sz) ==
  IF n <= 0 \/ from >= sz THEN 0 ELSE IF n < sz - from THEN n ELSE sz - from

\* D, control.go:295-353: the response for an opened file
DResponse(isVideo, rangeHeader, fileSize) ==
  LET out == DOutcome(isVideo, rangeHeader, fileSize)
      base == [NoResp EXCEPT !.hasLength = TRUE, !.contentLength = fileSize,
                             !.acceptRanges = IF isVideo THEN "bytes" ELSE "none"]
  IN IF out.status = 206
     THEN LET ra == parseRange(rangeHeader, fileSize).ranges[1] IN
          [base EXCEPT !.status = 206,
                       !.contentRange = <<ra.start, ra.end, fileSize>>,
                       !.contentLength = ra.length,
                       !.body = FileBody(ra.start, CopyN(ra.start, ra.length, fileSize))]
     ELSE [base EXCEPT !.status = 200, !.body = FileBody(0, fileSize)]

\* handleRangeRequest, control.go:364-392; data[ra.start:ra.end+1] panics unless
\* 0 <= ra.start <= ra.end+1 <= len(data)
HandleRangeResponse(rangeHeader, dataLen) ==
  LET whole == [NoResp EXCEPT !.status = 200, !.body = FileBody(0, dataLen)]
      p == parseRange(rangeHeader, dataLen)
  IN IF rangeHeader = <<>> THEN whole
     ELSE IF p.err \/ Len(p.ranges) # 1 THEN whole
     ELSE LET ra == p.ranges[1]
              head == [NoResp EXCEPT !.status = 206,
                                     !.contentRange = <<ra.start, ra.end, dataLen>>,
                                     !.hasLength = TRUE, !.contentLength = ra.length]
          IN IF 0 <= ra.start /\ ra.start <= ra.end + 1 /\ ra.end + 1 <= dataLen
             THEN [head EXCEPT !.body = FileBody(ra.start, ra.end + 1 - ra.start)]
             ELSE [head EXCEPT !.panicked = TRUE]

DeliveryPaths ==
  { FileRoute, FileRoute \o BlobPrefix \o <<"m">>, FileRoute \o <<"f">>,
    FileRoute \o <<"b", "l", "o", "b">> }

DeliveryHeaders ==
  { <<>>,
    <<"b", "y", "t", "e", "s", "=", "0", "-">>,
    <<"b", "y", "t", "e", "s", "=", "0", "-", "0">>,
    <<"b", "y", "t", "e", "s", "=", "1", "0", "0", "-", "2", "0", "0">>,
    <<"b", "y", "t", "e", "s", "=", "9", "9", "9", "-">>,
    <<"b", "y", "t", "e", "s", "=", "-", "0">>,
    <<"b", "y", "t", "e", "s", "=", "-", "1">>,
    <<"b", "y", "t", "e", "s", "=", "-", "-", "1">>,
    <<"b", "y", "t", "e", "s", "=", "5", "-", "2">>,
    <<"b", "y", "t", "e", "s", "=", "x">>,
    <<"0", "-", "0">>,
    <<"b", "y", "t", "e", "s", "=">>,
    <<"b", "y", "t", "e", "s", "=", "0", "-", "0", ",", "1", "0", "0", "-", "2", "0", "0">>,
    <<"b", "y", "t", "e", "s", "=", "0", "-", "0", ",", "0", "-">>,
    <<"b", "y", "t", "e", "s", "=", "0", "-", ",", "1", "0", "0", "-", "2", "0", "0">>,
    <<"b", "y", "t", "e", "s", "=", "0", "-", "0", ",", "x">> }

DeliverySizes == {0, 3, 1000, 2 * NearEndBytes}

DeliveryEnvs ==
  [fetchOk : BOOLEAN, openOk : BOOLEAN, statOk : BOOLEAN, readOk : BOOLEAN, video : BOOLEAN]
\* a request arrives: its path and Range header, and what the calls D makes
\* on it are going to return; or handleRangeRequest is called on some data
DRequest ==
  /\ dPc = "off"
  /\ dPc' = "request"
  /\ \/ dHandler' = "D" /\ dPath' \in DeliveryPaths /\ dEnv' \in DeliveryEnvs
     \/ dHandler' = "handleRangeRequest" /\ dPath' = FileRoute /\ dEnv' = AllOk
  /\ dHeader' \in DeliveryHeaders
  /\ dSize' \in DeliverySizes
  /\ UNCHANGED <<dResp, dCalls, dCached, dTask, dInvalidated, cacheVars, rangeVars, blobVars, lockVars>>

\* D, control.go:235-354, from the request to its return
DRespond ==
  /\ dPc = "request"
  /\ dHandler = "D"
  /\ dPc' = "responded"
  /\ LET id == TrimPrefix(dPath, FileRoute)
         opened == dEnv.fetchOk /\ dEnv.openOk /\ dEnv.statOk /\ dEnv.readOk
         cleanup == DOutcome(dEnv.video, dHeader, dSize).cleanup
     IN IF id = <<>>
        THEN /\ dResp' = ErrorResp(404, "404 Not Found")
             /\ UNCHANGED <<dCalls, dCached, dTask>>
        ELSE IF HasPrefix(id, BlobPrefix)
        THEN /\ dResp' = [NoResp EXCEPT !.status = 200]
             /\ dCalls' = [dCalls EXCEPT !.handleBlobFile = TRUE]
             /\ UNCHANGED <<dCached, dTask>>
        ELSE /\ dCalls' = [dCalls EXCEPT !.getCachedFile = TRUE]
             /\ dCached' = dEnv.fetchOk
             /\ dResp' = IF ~dEnv.fetchOk THEN ErrorResp(500, "Failed to fetch content")
                         ELSE IF ~dEnv.openOk THEN ErrorResp(500, "Failed to open file")
                         ELSE IF ~dEnv.statOk THEN ErrorResp(500, "Failed to get file info")
                         ELSE IF ~dEnv.readOk THEN ErrorResp(500, "Failed to read file")
                         ELSE DResponse(dEnv.video, dHeader, dSize)
             /\ dTask' = IF opened /\ cleanup > 0
                         THEN [pc |-> "sleep", delay |-> cleanup, slept |-> 0]
                         ELSE NoTask
  /\ UNCHANGED <<dHandler, dPath, dEnv, dHeader, dSize, dInvalidated, cacheVars, rangeVars, blobVars, lockVars>>

\* handleRangeRequest, control.go:364-392
RangeRequestCall ==
  /\ dPc = "request"
  /\ dHandler = "handleRangeRequest"
  /\ dPc' = "responded"
  /\ dResp' = HandleRangeResponse(dHeader, dSize)
  /\ UNCHANGED <<dHandler, dPath, dEnv, dHeader, dSize, dCalls, dCached, dTask,
                 dInvalidated, cacheVars, rangeVars, blobVars, lockVars>>

\* the goroutine of control.go:331-334 and 349-352 in time.Sleep: PlainCleanupDelay
\* more seconds have passed
SleepTick ==
  /\ dTask.pc = "sleep"
  /\ dTask.slept < dTask.delay
  /\ dTask' = [dTask EXCEPT !.slept = @ + PlainCleanupDelay]
  /\ UNCHANGED <<dPc, dHandler, dPath, dEnv, dHeader, dSize, dResp, dCalls, dCached,
                 dInvalidated, cacheVars, rangeVars, blobVars, lockVars>>

\* the sleep is over: cache.cleanupFile(id) (control.go:333, 351), and the
\* goroutine ends
RunInvalidate ==
  /\ dTask.pc = "sleep"
  /\ dTask.slept >= dTask.delay
  /\ dTask' = [dTask EXCEPT !.pc = "done"]
  /\ dCached' = FALSE
  /\ dInvalidated' = dInvalidated + 1
  /\ UNCHANGED <<dPc, dHandler, dPath, dEnv, dHeader, dSize, dResp, dCalls,
                 cacheVars, rangeVars, blobVars, lockVars>>

DeliveryNext == DRequest \/ DRespond \/ RangeRequestCall \/ SleepTick \/ RunInvalidate

DeliverySpec == Init /\ [][DeliveryNext]_vars

\* a step of the invalidation goroutine
InvalidationStep == SleepTick \/ RunInvalidate

\* the Go scheduler runs the goroutine D started, and its sleep ends
DeliveryLiveSpec == DeliverySpec /\ WF_vars(InvalidationStep)

(***************************************************************************)
(* The Blob Assembler: one call of handleBlobDownload (control.go:395-420) *)
(***************************************************************************)
\* the lines of a manifest as they are stored; a line may hold spaces
RawLines == {<<"a">>, <<" ", "a">>, <<"b">>}

\* strings.ReplaceAll(s, " ", "")
IsNotBlank(c) == c # " "
RemoveSpaces(s) == SelectSeq(s, IsNotBlank)

\* the chunk a line names: the id given to utils.GetDownloadUrl (control.go:406)
ChunkOf(line) == RemoveSpaces(line)[1]

\* the remote body of a chunk, block by block
ChunkBody(c) == [k \in 1..ChunkLen |-> <<c, k>>]

\* what http.Error writes to the body (control.go:410)
ErrorText == <<"Failed to fetch content", 0>>

Manifests == UNION {[1..n -> RawLines] : n \in 0..MaxLines}

\* the call: the manifest, the first line to send, and how the resolver and
\* the remote side are going to answer for each chunk
BlobRequest ==
  /\ bPc = "off"
  /\ bPc' = "loop"
  /\ bLines' \in Manifests
  /\ bStart' \in 0..1
  /\ bI' = bStart'
  /\ bFailsLeft' \in [Chunks -> -1..MaxResolveFails]
  /\ bFetch' \in [Chunks -> {"ok", "getError", "copyError"}]
  /\ UNCHANGED <<bRetry, bCopied, bStatus, bOut, bWaited, cacheVars, rangeVars, deliveryVars, lockVars>>

\* control.go:397-400: the loop test, and the locals of one iteration
BlobLoop ==
  /\ bPc = "loop"
  /\ bPc' = IF bI < Len(bLines) THEN "resolve" ELSE "done"
  /\ bRetry' = 0
  /\ bWaited' = 0
  /\ UNCHANGED <<bLines, bStart, bI, bCopied, bStatus, bOut, bFailsLeft, bFetch,
                 cacheVars, rangeVars, deliveryVars, lockVars>>

\* an attempt that gives up after the first failure
BlobResolveGivesUp ==
  LET c == ChunkOf(bLines[bI + 1]) IN
  /\ bPc = "resolve"
  /\ bRetry' = IF bRetry < MaxRetryCount THEN bRetry + 1 ELSE bRetry
  /\ IF bFailsLeft[c] = 0
     THEN bPc' = "get" /\ UNCHANGED bFailsLeft
     ELSE /\ bPc' = IF bRetry > 0 THEN "aborted" ELSE "backoff"
          /\ bFailsLeft' = [bFailsLeft EXCEPT ![c] = IF @ > 0 THEN @ - 1 ELSE @]
  /\ UNCHANGED <<bLines, bStart, bI, bCopied, bStatus, bOut, bWaited, bFetch,
                 cacheVars, rangeVars, deliveryVars, lockVars>>

\* control.go:401, 405-407: one attempt, reTry counted, utils.GetDownloadUrl called;
\* a failure goes round the loop, where the sleep comes first
BlobResolve ==
  LET c == ChunkOf(bLines[bI + 1]) IN
  /\ bPc = "resolve"
  /\ bRetry' = IF bRetry < MaxRetryCount THEN bRetry + 1 ELSE bRetry
  /\ IF bFailsLeft[c] = 0
     THEN bPc' = "get" /\ UNCHANGED bFailsLeft
     ELSE /\ bPc' = "backoff"
          /\ bFailsLeft' = [bFailsLeft EXCEPT ![c] = IF @ > 0 THEN @ - 1 ELSE @]
  /\ UNCHANGED <<bLines, bStart, bI, bCopied, bStatus, bOut, bWaited, bFetch,
                 cacheVars, rangeVars, deliveryVars, lockVars>>

\* control.go:402-404: time.Sleep(5 * time.Second) before another attempt
BlobBackoff ==
  /\ bPc = "backoff"
  /\ bPc' = "resolve"
  /\ bWaited' = ResolveBackoff
  /\ UNCHANGED <<bLines, bStart, bI, bRetry, bCopied, bStatus, bOut, bFailsLeft, bFetch,
                 cacheVars, rangeVars, deliveryVars, lockVars>>

\* control.go:408-412: http.Get; on an error http.Error writes the status line
\* if none was sent yet, and its text to the body, and the call returns
BlobGet ==
  LET c == ChunkOf(bLines[bI + 1]) IN
  /\ bPc = "get"
  /\ IF bFetch[c] = "getError"
     THEN /\ bPc' = "aborted"
          /\ bStatus' = IF bStatus = 0 THEN 500 ELSE bStatus
          /\ bOut' = Append(bOut, ErrorText)
          /\ UNCHANGED bCopied
     ELSE /\ bPc' = "copy"
          /\ bCopied' = 0
          /\ UNCHANGED <<bStatus, bOut>>
  /\ UNCHANGED <<bLines, bStart, bI, bRetry, bWaited, bFailsLeft, bFetch,
                 cacheVars, rangeVars, deliveryVars, lockVars>>

\* control.go:413: io.Copy writes the next block of the body to w; the first
\* write of the response sends the status line 200
BlobCopyBlock ==
  LET c == ChunkOf(bLines[bI + 1]) IN
  /\ bPc = "copy"
  /\ bCopied < ChunkLen
  /\ ~(bFetch[c] = "copyError" /\ bCopied >= 1)
  /\ bCopied' = bCopied + 1
  /\ bOut' = Append(bOut, ChunkBody(c)[bCopied + 1])
  /\ bStatus' = IF bStatus = 0 THEN 200 ELSE bStatus
  /\ UNCHANGED <<bPc, bLines, bStart, bI, bRetry, bWaited, bFailsLeft, bFetch,
                 cacheVars, rangeVars, deliveryVars, lockVars>>

\* control.go:413-418: io.Copy fails after a block; the error is logged and the
\* call returns
BlobCopyFail ==
  LET c == ChunkOf(bLines[bI + 1]) IN
  /\ bPc = "copy"
  /\ bFetch[c] = "copyError" /\ bCopied >= 1
  /\ bPc' = "aborted"
  /\ UNCHANGED <<bLines, bStart, bI, bRetry, bCopied, bStatus, bOut, bWaited, bFailsLeft, bFetch,
                 cacheVars, rangeVars, deliveryVars, lockVars>>

\* the loop going round without i++
BlobCopyEOFRepeats ==
  /\ bPc = "copy"
  /\ bCopied = ChunkLen
  /\ bPc' = "loop"
  /\ bI' = bI
  /\ bCopied' = 0
  /\ UNCHANGED <<bLines, bStart, bRetry, bStatus, bOut, bWaited, bFailsLeft, bFetch,
                 cacheVars, rangeVars, deliveryVars, lockVars>>

\* control.go:413-414, 397: io.Copy reaches the end of the body, the body is
\* closed, i++
BlobCopyEOF ==
  /\ bPc = "copy"
  /\ bCopied = ChunkLen
  /\ bPc' = "loop"
  /\ bI' = bI + 1
  /\ bCopied' = 0
  /\ UNCHANGED <<bLines, bStart, bRetry, bStatus, bOut, bWaited, bFailsLeft, bFetch,
                 cacheVars, rangeVars, deliveryVars, lockVars>>

\* a step of the call once it is made
BlobStep ==
  \/ BlobLoop \/ BlobResolve \/ BlobBackoff \/ BlobGet
  \/ BlobCopyBlock \/ BlobCopyFail \/ BlobCopyEOF

BlobNext == BlobRequest \/ BlobStep

BlobSpec == Init /\ [][BlobNext]_vars

\* the goroutine serving the request keeps running
BlobLiveSpec == BlobSpec /\ WF_vars(BlobStep)

(***************************************************************************)
(* Lock discipline: the calls of the cache as the sequences of lock        *)
(* operations, map accesses and outside calls their code makes, run by     *)
(* goroutines that share the RWMutex embedded in FileCache.                *)
(***************************************************************************)
Op(o, a) == [op |-> o, arg |-> a]

\* getCachedFile, control.go:57-59 (utils.go:55-57): the lookup
Lookup == <<Op("RLock", "mu"), Op("read", "files"), Op("RUnlock", "mu")>>

\* control.go:65-67 (utils.go:63-65): the timestamp of a hit
TouchLocked == <<Op("Lock", "mu"), Op("write", "lastAccess"), Op("Unlock", "mu")>>

\* control.go:106-109 (utils.go:104-107): the registration
RegisterLocked ==
  <<Op("Lock", "mu"), Op("write", "files"), Op("write", "lastAccess"), Op("Unlock", "mu")>>

\* control.go:73-99 (utils.go:71-97): GetDownloadUrl, os.Create, http.Get and io.Copy
Download == <<Op("ext", "resolve"), Op("ext", "create"), Op("ext", "download")>>

\* the timestamp of a hit written with the lock already released
GetHitUnlocked ==
  Lookup \o <<Op("ext", "stat")>> \o <<Op("write", "lastAccess")>>

\* getCachedFile, control.go:57-69: the entry is there and so is its file
GetHit == Lookup \o <<Op("ext", "stat")>> \o TouchLocked

\* control.go:57-111: no entry; the download succeeds
GetMiss == Lookup \o Download \o RegisterLocked

\* control.go:57-111: an entry whose file is gone; the download succeeds
GetStale == Lookup \o <<Op("ext", "stat")>> \o Download \o RegisterLocked

\* control.go:57-76: the resolver fails
GetResolveFailed == Lookup \o <<Op("ext", "resolve")>>

\* control.go:57-83: os.Create fails
GetCreateFailed == Lookup \o <<Op("ext", "resolve"), Op("ext", "create")>>

\* control.go:57-103: the download fails and the partial file is removed
GetDownloadFailed == Lookup \o Download \o <<Op("ext", "remove")>>

\* cleanupFile, control.go:115-127 (utils.go:122-133), the id registered
CleanupPresent ==
  <<Op("Lock", "mu"), Op("read", "files"), Op("write", "files"),
    Op("write", "lastAccess"), Op("Unlock", "mu"), Op("ext", "remove")>>

\* cleanupFile, control.go:115-121, the id not registered
CleanupAbsent == <<Op("Lock", "mu"), Op("read", "files"), Op("Unlock", "mu")>>

\* MarkFileForCleanup, utils.go:113-119
MarkForCleanup == <<Op("Lock", "mu"), Op("write", "lastAccess"), Op("Unlock", "mu")>>

\* one pass of periodicCleanup, control.go:142-164, that finds nothing expired
SweepNone ==
  <<Op("RLock", "mu"), Op("read", "lastAccess"), Op("RUnlock", "mu"),
    Op("Lock", "mu"), Op("Unlock", "mu")>>

\* one pass of periodicCleanup, control.go:142-164, that evicts an entry
SweepOne ==
  <<Op("RLock", "mu"), Op("read", "lastAccess"), Op("read", "files"), Op("RUnlock", "mu"),
    Op("ext", "remove"),
    Op("Lock", "mu"), Op("write", "files"), Op("write", "lastAccess"), Op("Unlock", "mu")>>

\* cleanupExpiredFiles, utils.go:147-184: the same pass under cleanupLock
UnderCleanupLock(prog) == <<Op("Lock", "cleanupLock")>> \o prog \o <<Op("Unlock", "cleanupLock")>>

\* the calls a goroutine can make on the cache of a variant
Calls(variant, g) ==
  IF g \in {"worker1", "worker2"}
  THEN {GetHit, GetMiss, GetStale, GetResolveFailed, GetCreateFailed, GetDownloadFailed}
  ELSE IF g = "invalidation"
  THEN {CleanupPresent, CleanupAbsent} \cup (IF variant = "utils" THEN {MarkForCleanup} ELSE {})
  ELSE IF variant = "utils"
  THEN {UnderCleanupLock(SweepNone), UnderCleanupLock(SweepOne)}
  ELSE {SweepNone, SweepOne}

\* the operation a goroutine is about to do
InCall(g) == lProg[g] # <<>>
NextOp(g) == lProg[g][lPc[g] + 1]

\* the operation done: on to the next one, or out of the call
Advance(g) ==
  IF lPc[g] + 1 = Len(lProg[g])
  THEN /\ lProg' = [lProg EXCEPT ![g] = <<>>]
       /\ lPc' = [lPc EXCEPT ![g] = 0]
  ELSE /\ lPc' = [lPc EXCEPT ![g] = @ + 1]
       /\ lProg' = lProg

\* the first call on a cache fixes which one it is
LockCall(g) ==
  /\ ~InCall(g)
  /\ \E v \in {"control", "utils"} :
       /\ lVariant \in {"none", v}
       /\ lVariant' = v
       /\ lProg' \in {[lProg EXCEPT ![g] = c] : c \in Calls(v, g)}
  /\ UNCHANGED <<lPc, lockW, lockR, cleanupHeld, cacheVars, rangeVars, deliveryVars, blobVars>>

\* sync.RWMutex RLock / Lock and sync.Mutex Lock: the goroutine waits until
\* the lock can be taken
LockAcquire(g) ==
  /\ InCall(g)
  /\ NextOp(g).op \in {"RLock", "Lock"}
  /\ IF NextOp(g).arg = "cleanupLock"
     THEN /\ cleanupHeld = "none"
          /\ cleanupHeld' = g
          /\ UNCHANGED <<lockW, lockR>>
     ELSE IF NextOp(g).op = "RLock"
     THEN /\ lockW = "none"
          /\ lockR' = lockR \cup {g}
          /\ UNCHANGED <<lockW, cleanupHeld>>
     ELSE /\ lockW = "none" /\ lockR = {}
          /\ lockW' = g
          /\ UNCHANGED <<lockR, cleanupHeld>>
  /\ Advance(g)
  /\ UNCHANGED <<lVariant, cacheVars, rangeVars, deliveryVars, blobVars>>

\* RUnlock / Unlock
LockRelease(g) ==
  /\ InCall(g)
  /\ NextOp(g).op \in {"RUnlock", "Unlock"}
  /\ IF NextOp(g).arg = "cleanupLock"
     THEN cleanupHeld' = "none" /\ UNCHANGED <<lockW, lockR>>
     ELSE IF NextOp(g).op = "RUnlock"
     THEN lockR' = lockR \ {g} /\ UNCHANGED <<lockW, cleanupHeld>>
     ELSE lockW' = "none" /\ UNCHANGED <<lockR, cleanupHeld>>
  /\ Advance(g)
  /\ UNCHANGED <<lVariant, cacheVars, rangeVars, deliveryVars, blobVars>>

\* a read or a write of fc.files or fc.lastAccess
MapAccess(g) ==
  /\ InCall(g)
  /\ NextOp(g).op \in {"read", "write"}
  /\ Advance(g)
  /\ UNCHANGED <<lVariant, lockW, lockR, cleanupHeld, cacheVars, rangeVars, deliveryVars, blobVars>>

\* os.Stat, utils.GetDownloadUrl, os.Create, http.Get with io.Copy, os.Remove
OutsideCall(g) ==
  /\ InCall(g)
  /\ NextOp(g).op = "ext"
  /\ Advance(g)
  /\ UNCHANGED <<lVariant, lockW, lockR, cleanupHeld, cacheVars, rangeVars, deliveryVars, blobVars>>

LockNext ==
  \E g \in Goroutines :
    LockCall(g) \/ LockAcquire(g) \/ LockRelease(g) \/ MapAccess(g) \/ OutsideCall(g)

LockSpec == Init /\ [][LockNext]_vars

(***************************************************************************)
(* Cache Store properties                                                  *)
(***************************************************************************)
FetchInProgress(id) == \E w \in Workers : rid[w] = id /\ pc[w] \in {"copy", "rm", "register"}

\* C1: in every reachable state an identifier is a key of the path map if and
\* only if a file exists at the recorded path, except that a file may exist
\* without a mapping while a fetch of that identifier is in progress.
C1_MappingIffFile ==
  \A id \in Ids :
    /\ id \in DOMAIN files => disk[files[id]].exists
    /\ disk[PathOf(id)].exists => (id \in DOMAIN files \/ FetchInProgress(id))

\* C2: a getOrFetch issued after an earlier one for the same identifier has
\* returned a path, with no invalidate since and before the inactivity threshold
\* has passed, is a hit: it never reaches the resolver or the download.
C2_SecondFetchIsHit ==
  \A w \in Workers : expectHit[w] => pc[w] \in {"stat", "touch", "open", "serve"}

\* C3: a getOrFetch that fails leaves the maps as they were; when the resolver
\* (or os.Create) fails no file is created or changed, when the download fails
\* the partial file is gone from the path when the error is returned; no step of
\* a call that is still looking up or downloading writes the maps.
C3_FailedFetchLeavesCache ==
  [][\A w \in Workers :
       /\ (pc[w] \in {"fetch", "rm"} /\ pc'[w] = "fetchErr") =>
            /\ files' = files
            /\ lastAccess' = lastAccess
            /\ pc[w] = "fetch" => disk' = disk
            /\ pc[w] = "rm" => ~disk'[PathOf(rid[w])].exists
       /\ (pc[w] \in {"stat", "fetch", "copy", "rm"}
             /\ (pc'[w] # pc[w] \/ written'[w] # written[w])) =>
            (files' = files /\ lastAccess' = lastAccess)
    ]_vars

\* a download failed after it had written a block, the partial file is gone
\* and nothing is registered
C3_Witness ==
  \E w \in Workers :
    /\ pc[w] = "fetchErr"
    /\ requests = 1
    /\ files = <<>> /\ lastAccess = <<>>
    /\ \A p \in Paths : ~disk[p].exists

\* C4: when cleanupFile(id) has run its locked section id is in neither map and
\* every other identifier's entries are as before; on an absent id nothing
\* changes at all; its os.Remove leaves no file at the path and touches nothing
\* else.
OthersUntouched(id) ==
  \A o \in Ids \ {id} :
    /\ (o \in DOMAIN files') = (o \in DOMAIN files)
    /\ (o \in DOMAIN lastAccess') = (o \in DOMAIN lastAccess)
    /\ o \in DOMAIN files => files'[o] = files[o]
    /\ o \in DOMAIN lastAccess => lastAccess'[o] = lastAccess[o]

C4_InvalidateIdempotent ==
  [][\A s \in TaskSlots :
       LET id == tasks[s].id IN
       /\ (tasks[s].pc = "sleep" /\ tasks'[s].pc # "sleep") =>
            /\ id \notin DOMAIN files'
            /\ id \notin DOMAIN lastAccess'
            /\ OthersUntouched(id)
            /\ disk' = disk
            /\ id \notin DOMAIN files =>
                 (files' = files /\ lastAccess' = lastAccess /\ tasks'[s] = FreeTask)
       /\ (tasks[s].pc = "remove" /\ tasks'[s].pc # "remove") =>
            /\ ~disk'[PathOf(id)].exists
            /\ \A p \in Paths \ {PathOf(id)} : disk'[p] = disk[p]
            /\ files' = files
            /\ lastAccess' = lastAccess
    ]_vars

\* C5: the sweep removes the mapping only of entries whose last access is older
\* than the threshold at the moment the mapping is removed.
C5_SweepEvictsOnlyExpired ==
  [][(sweepPc = "remove" /\ sweepPc' = "wait") =>
       \A id \in DOMAIN files \ DOMAIN files' :
         id \in DOMAIN lastAccess /\ lastAccess[id] < now - ExpireAfter
    ]_vars

\* C6: whenever getCachedFile returns a path, as a hit or after a download, the
\* file at that path holds the complete remote content.
C6_ReturnedFileComplete ==
  [][\A w \in Workers :
       (pc[w] \in {"touch", "register"} /\ pc'[w] = "open") =>
          Complete(disk'[PathOf(rid[w])])
    ]_vars

\* C7: a deferred invalidation is scheduled with the delay of its kind, nothing
\* but its own firing changes it, it fires only once the delay has passed, and
\* when it fires the mapping of its identifier goes whatever was accessed since;
\* its os.Remove then takes the file.
C7_InvalidationNotCancellable ==
  [][\A s \in TaskSlots :
       LET t == tasks[s] IN
       /\ (t.pc = "free" /\ tasks'[s].pc # "free") =>
            /\ tasks'[s].pc = "sleep"
            /\ \E w \in Workers :
                 /\ pc[w] = "serve" /\ pc'[w] = "idle"
                 /\ tasks'[s].id = rid[w]
                 /\ tasks'[s].due = now + (IF openVideo[w] THEN VideoCleanupDelay
                                                            ELSE PlainCleanupDelay)
       /\ t.pc = "sleep" =>
            \/ tasks'[s] = t
            \/ tasks'[s] = [t EXCEPT !.touched = TRUE]
            \/ /\ now >= t.due
               /\ t.id \notin DOMAIN files'
               /\ tasks'[s] = IF t.id \in DOMAIN files THEN [t EXCEPT !.pc = "remove"]
                                                        ELSE FreeTask
       /\ t.pc = "remove" =>
            \/ tasks'[s] = t
            \/ tasks'[s] = FreeTask /\ ~disk'[PathOf(t.id)].exists
    ]_vars

\* an invalidation scheduled by an earlier request has removed the mapping of an
\* identifier that a later request fetched or touched after the scheduling and
\* is still serving
C7_Witness ==
  \E s \in TaskSlots, w \in Workers :
    /\ tasks[s].pc = "remove"
    /\ tasks[s].touched
    /\ pc[w] = "serve"
    /\ rid[w] = tasks[s].id
    /\ rid[w] \notin DOMAIN files

(***************************************************************************)
(* Range Parser properties                                                 *)
(***************************************************************************)
\* strconv.Itoa for n >= 0, used to write the reference headers
RECURSIVE Itoa(_)
Itoa(n) == IF n < 10 THEN <<Digits[n + 1]>> ELSE Itoa(n \div 10) \o <<Digits[(n % 10) + 1]>>

Min(a, b) == IF a < b THEN a ELSE b
Single(start, end) == [err |-> FALSE, ranges |-> <<[start |-> start, end |-> end, length |-> end - start + 1]>>]

\* C8: a header holding one well-formed spec parses to exactly the reference
\* range: start-end gives (start, end, end-start+1), start- gives (start, S-1),
\* -n gives the last min(n, S) bytes.
C8_SingleSpecReference ==
  phase = "parsed" =>
    /\ \A a \in 0..(size - 1), b \in 0..(size - 1) :
         (header = BytesPrefix \o Itoa(a) \o <<"-">> \o Itoa(b) /\ a <= b)
           => parsed = Single(a, b)
    /\ \A a \in 0..(size - 1) :
         header = BytesPrefix \o Itoa(a) \o <<"-">> => parsed = Single(a, size - 1)
    /\ \A n \in 0..MaxNum :
         header = BytesPrefix \o <<"-">> \o Itoa(n)
           => parsed = Single(size - Min(n, size), size - 1)

\* bytes=-12 on a resource of 3 bytes is the whole resource
C8_Witness ==
  /\ phase = "parsed"
  /\ header = BytesPrefix \o <<"-", "1", "2">>
  /\ size = 3
  /\ parsed = Single(0, 2)

\* C9: every range parse returns without error has 0 <= start <= end <= size-1
\* and length = end-start+1 >= 1.
C9_RangesWithinResource ==
  (phase = "parsed" /\ ~parsed.err) =>
    \A i \in 1..Len(parsed.ranges) :
      LET r == parsed.ranges[i] IN
      /\ 0 <= r.start /\ r.start <= r.end /\ r.end <= size - 1
      /\ r.length = r.end - r.start + 1
      /\ r.length >= 1

\* C10: when the header lists more than one spec, each of them valid for the
\* resource, and one of them spans the whole resource, parse returns the
\* whole-resource range alone.
ListedSpecs == 
  LET all == Split(SubSeq(header, Len(BytesPrefix) + 1, Len(header)), ",")
  IN {TrimSpace(all[i]) : i \in 1..Len(all)} \ {<<>>}
ListedCount ==
  LET all == Split(SubSeq(header, Len(BytesPrefix) + 1, Len(header)), ",")
  IN Cardinality({i \in 1..Len(all) : TrimSpace(all[i]) # <<>>})

C10_WholeRangeWins ==
  (phase = "parsed" /\ HasPrefix(header, BytesPrefix) /\ ListedCount > 1
     /\ (\A ra \in ListedSpecs : ~parseOne(ra, size).err)
     /\ (\E ra \in ListedSpecs : parseOne(ra, size).r = httpRange(0, size - 1)))
  => parsed = Single(0, size - 1)

\* C11: parse fails with InvalidRange, returning no ranges, for every header
\* that is not empty and lacks the bytes= prefix, and for every header one of
\* whose listed specs is rejected (malformed number, reversed bounds, start
\* outside 0..size-1, end >= size), wherever that spec sits in the list.
C11_InvalidSpecAnywhereFails ==
  (phase = "parsed" /\ header # <<>>
     /\ (\/ ~HasPrefix(header, BytesPrefix)
         \/ /\ HasPrefix(header, BytesPrefix)
            /\ \E ra \in ListedSpecs : parseOne(ra, size).err))
  => parsed = InvalidRange

(***************************************************************************)
(* Delivery Handler properties                                             *)
(***************************************************************************)
\* D opened the cached file and answered from it
ServedFile ==
  /\ dPc = "responded" /\ dHandler = "D"
  /\ TrimPrefix(dPath, FileRoute) # <<>>
  /\ ~HasPrefix(TrimPrefix(dPath, FileRoute), BlobPrefix)
  /\ dEnv.fetchOk /\ dEnv.openOk /\ dEnv.statOk /\ dEnv.readOk

\* C12: a request whose file does not sniff as video/* never gets 206 nor a
\* Content-Range, whatever its Range header: it gets Accept-Ranges: none and
\* the whole file.
C12_NonVideoNeverPartial ==
  (ServedFile /\ ~dEnv.video) =>
    /\ dResp.status = 200
    /\ dResp.contentRange = <<>>
    /\ dResp.acceptRanges = "none"
    /\ dResp.body = FileBody(0, dSize)
    /\ dResp.hasLength /\ dResp.contentLength = dSize

\* a non-video file of 1000 bytes asked with bytes=0-0 is sent whole
C12_Witness ==
  /\ ServedFile /\ ~dEnv.video
  /\ dHeader = <<"b", "y", "t", "e", "s", "=", "0", "-", "0">>
  /\ dSize = 1000
  /\ dResp.status = 200
  /\ dResp.body = FileBody(0, 1000)

\* the bytes start..end of the file, none when end < start
RangeBody(r) == FileBody(r.start, IF r.end >= r.start THEN r.end - r.start + 1 ELSE 0)

\* C13: with a Range header on a video (D) or on the data (handleRangeRequest):
\* exactly one parsed range gives 206, Content-Range start-end/size,
\* Content-Length = length and the bytes start..end as the body; a parse error
\* or another number of ranges gives 200 with the whole file (in D with
\* Content-Length = size); no error status and no failure reaches the client.
C13_RangeResponse ==
  (/\ dPc = "responded"
   /\ dHeader # <<>>
   /\ (ServedFile /\ dEnv.video) \/ dHandler = "handleRangeRequest")
  => LET p == parseRange(dHeader, dSize) IN
     /\ ~dResp.panicked
     /\ dResp.status \in {200, 206}
     /\ IF ~p.err /\ Len(p.ranges) = 1
        THEN /\ dResp.status = 206
             /\ dResp.contentRange = <<p.ranges[1].start, p.ranges[1].end, dSize>>
             /\ dResp.hasLength /\ dResp.contentLength = p.ranges[1].length
             /\ dResp.body = RangeBody(p.ranges[1])
        ELSE /\ dResp.status = 200
             /\ dResp.contentRange = <<>>
             /\ dResp.body = FileBody(0, dSize)
             /\ dHandler = "D" => (dResp.hasLength /\ dResp.contentLength = dSize)

\* the specs of a header, trimmed, the empty ones dropped (control.go:439-443)
IsSpec(ra) == ra # <<>>
SpecsOf(h) ==
  LET all == Split(SubSeq(h, Len(BytesPrefix) + 1, Len(h)), ",")
  IN SelectSeq([i \in 1..Len(all) |-> TrimSpace(all[i])], IsSpec)
SeveralSpecs(h) == HasPrefix(h, BytesPrefix) /\ Len(SpecsOf(h)) > 1
SpansWhole(ra, sz) == ~parseOne(ra, sz).err /\ parseOne(ra, sz).r = httpRange(0, sz - 1)

\* C14 as stated: a header of several specs on a video is answered with
\* exactly the first requested sub-range when every spec is valid, and with the
\* whole resource when one of them is invalid.
C14_FirstRangeHonoured ==
  (ServedFile /\ dEnv.video /\ SeveralSpecs(dHeader)) =>
    LET specs == SpecsOf(dHeader) IN
    IF \A i \in 1..Len(specs) : ~parseOne(specs[i], dSize).err
    THEN dResp.status = 206 /\ dResp.body = RangeBody(parseOne(specs[1], dSize).r)
    ELSE dResp.status = 200 /\ dResp.body = FileBody(0, dSize)

\* C14 amended: a header of several specs on a video is answered in one part,
\* either with the whole resource (200) or with exactly the first requested
\* sub-range (206); it is the whole resource whenever no listed spec spans the
\* whole resource, every spec being valid or not.
C14_OnePartWholeOrFirst ==
  (ServedFile /\ dEnv.video /\ SeveralSpecs(dHeader)) =>
    LET specs == SpecsOf(dHeader) IN
    /\ \/ dResp.status = 200 /\ dResp.contentRange = <<>> /\ dResp.body = FileBody(0, dSize)
       \/ /\ dResp.status = 206
          /\ ~parseOne(specs[1], dSize).err
          /\ dResp.body = RangeBody(parseOne(specs[1], dSize).r)
          /\ dResp.contentRange =
               <<parseOne(specs[1], dSize).r.start, parseOne(specs[1], dSize).r.end, dSize>>
    /\ (\A i \in 1..Len(specs) : ~SpansWhole(specs[i], dSize)) =>
          (dResp.status = 200 /\ dResp.body = FileBody(0, dSize))

\* bytes=0-0,100-200 on a video of 1000 bytes: 200 and the 1000 bytes
C14_Witness ==
  /\ ServedFile /\ dEnv.video
  /\ dHeader = <<"b", "y", "t", "e", "s", "=", "0", "-", "0", ",", "1", "0", "0", "-", "2", "0", "0">>
  /\ dSize = 1000
  /\ dResp.status = 200
  /\ dResp.body = FileBody(0, 1000)

\* the delay D is to schedule the invalidation with, 0 for none
DueDelay ==
  IF ~ServedFile THEN 0
  ELSE IF ~dEnv.video THEN PlainCleanupDelay
  ELSE IF /\ dResp.status = 206
          /\ \/ dResp.contentRange[2] = dSize - 1
             \/ dResp.contentRange[2] >= dSize - NearEndBytes
       THEN VideoCleanupDelay
  ELSE 0

\* C15: D starts an invalidation of the requested id exactly after a non-video
\* file (5 s) and after a 206 on a video whose range ends at most 1 MiB before
\* the end (10 s), never after a 404, a 500, a video sent whole or a range
\* ending earlier; a started invalidation calls cleanupFile once the delay has
\* passed, eventually, and once.
C15_InvalidationScheduling ==
  /\ [](dPc = "responded" /\ dHandler = "D" =>
          /\ (dTask.pc # "none") <=> (DueDelay > 0)
          /\ dTask.pc # "none" => dTask.delay = DueDelay)
  /\ [](dPc # "responded" => dTask.pc = "none")
  /\ [][dInvalidated' # dInvalidated =>
          /\ dInvalidated' = dInvalidated + 1
          /\ dTask.pc = "sleep" /\ dTask.slept >= dTask.delay
          /\ dTask'.pc = "done"]_vars
  /\ [](dInvalidated <= 1)
  /\ (dTask.pc = "sleep") ~> (dTask.pc = "done" /\ dInvalidated = 1 /\ ~dCached)

\* the invalidation of a video of 2 MiB whose last bytes were sent has run
C15_Witness ==
  /\ ServedFile /\ dEnv.video
  /\ dSize = 2 * NearEndBytes
  /\ dResp.status = 206
  /\ dTask = [pc |-> "done", delay |-> VideoCleanupDelay, slept |-> VideoCleanupDelay]
  /\ dInvalidated = 1

(***************************************************************************)
(* Blob Assembler properties                                               *)
(***************************************************************************)
\* the bodies of the chunks of lines[from], ..., lines[to-1], one after the other
RECURSIVE ConcatBodies(_, _, _)
ConcatBodies(lines, from, to) ==
  IF from >= to THEN <<>>
  ELSE ChunkBody(ChunkOf(lines[from + 1])) \o ConcatBodies(lines, from + 1, to)

\* the manifest stored under the id of the blob request
StoredManifest == << <<"a">>, <<"b">> >>
ResponseBlocks(r) == IF r.body.kind = "none" THEN <<>> ELSE <<r.body>>

\* C16: a request whose id begins with blob- goes to handleBlobFile, never to
\* getCachedFile, and its body is the chunks of the manifest one after the
\* other.
C16_BlobRouted ==
  (dPc = "responded" /\ dHandler = "D"
     /\ HasPrefix(TrimPrefix(dPath, FileRoute), BlobPrefix))
  => /\ dCalls.handleBlobFile
     /\ ~dCalls.getCachedFile
     /\ ResponseBlocks(dResp) = ConcatBodies(StoredManifest, 0, Len(StoredManifest))

\* C17: at every point of a call the output is the bodies of the chunks before
\* the one in hand, in listed order and each once, followed by the blocks
\* already copied of the chunk in hand: no chunk is resolved or fetched before
\* the one before it is written out, and at the end the output is the
\* concatenation of all of them and nothing else.
C17_OutputIsConcatenation ==
  /\ bPc \in {"loop", "resolve", "backoff", "get"} =>
       bOut = ConcatBodies(bLines, bStart, bI)
  /\ bPc = "copy" =>
       bOut = ConcatBodies(bLines, bStart, bI)
                \o SubSeq(ChunkBody(ChunkOf(bLines[bI + 1])), 1, bCopied)
  /\ bPc = "done" =>
       /\ bOut = ConcatBodies(bLines, bStart, Len(bLines))
       /\ bStatus \in {0, 200}

\* a manifest of two different chunks has been sent in full
C17_Witness ==
  /\ bPc = "done"
  /\ bStart = 0
  /\ Len(bLines) = 2
  /\ ChunkOf(bLines[1]) # ChunkOf(bLines[2])
  /\ bOut = ChunkBody(ChunkOf(bLines[1])) \o ChunkBody(ChunkOf(bLines[2]))

\* every chunk listed from startLine on is resolved after finitely many failures
AllResolvable ==
  \A k \in (bStart + 1)..Len(bLines) : bFailsLeft[ChunkOf(bLines[k])] >= 0
AllFetchable ==
  \A k \in (bStart + 1)..Len(bLines) : bFetch[ChunkOf(bLines[k])] = "ok"

\* C18: a failure of the resolver is followed by the backoff and another
\* attempt on the same chunk, however many came before, with no error answered
\* and nothing sent; while a chunk cannot be resolved the call stays in that
\* loop and sends nothing more; if every chunk is resolved in the end the
\* call ends, and with every fetch succeeding it ends with all chunks sent.
C18_ResolveRetriedForEver ==
  /\ [][(bPc = "resolve" /\ bFailsLeft[ChunkOf(bLines[bI + 1])] # 0) =>
          (bPc' = "backoff" /\ bI' = bI /\ bOut' = bOut /\ bStatus' = bStatus)]_vars
  /\ [][bPc = "backoff" =>
          (bPc' = "resolve" /\ bI' = bI /\ bOut' = bOut /\ bStatus' = bStatus
             /\ bWaited' = ResolveBackoff)]_vars
  /\ [][(bPc \in {"resolve", "backoff"} /\ bFailsLeft[ChunkOf(bLines[bI + 1])] = -1) =>
          (bPc' \in {"resolve", "backoff"} /\ bI' = bI /\ bOut' = bOut
             /\ bFailsLeft' = bFailsLeft)]_vars
  /\ (bPc # "off" /\ AllResolvable) ~> (bPc \in {"done", "aborted"})
  /\ (bPc # "off" /\ AllResolvable /\ AllFetchable) ~>
       (bPc = "done" /\ bOut = ConcatBodies(bLines, bStart, Len(bLines)))

\* a chunk was resolved at the attempt after MaxResolveFails failures, each
\* followed by the backoff
C18_Witness ==
  /\ bPc = "get"
  /\ bRetry = MaxResolveFails + 1
  /\ bWaited = ResolveBackoff

\* C19: a failure of http.Get or io.Copy ends the call: what was sent before
\* stays as it is with nothing appended after it, and no further chunk is
\* resolved, fetched or written.
C19_AbortLeavesOutput ==
  [][/\ (bPc # "aborted" /\ bPc' = "aborted") =>
          /\ bPc \in {"get", "copy"}
          /\ bI' = bI
          /\ bOut # <<>> => bOut' = bOut
     /\ bPc = "aborted" => UNCHANGED blobVars
    ]_vars

(***************************************************************************)
(* Lock discipline of the Cache Store                                      *)
(***************************************************************************)
HoldsShared(g) == g \in lockR
HoldsExclusive(g) == lockW = g

\* C20: whenever a goroutine is about to write one of the maps it holds the
\* RWMutex exclusively; about to read one, it holds it shared or exclusively;
\* about to call the resolver, download, or stat, create or remove a file, it
\* holds it in neither way. The lock is held by one writer or by readers only.
C20_LockDiscipline ==
  /\ \A g \in Goroutines :
       InCall(g) =>
         /\ NextOp(g).op = "write" => HoldsExclusive(g)
         /\ NextOp(g).op = "read" => (HoldsShared(g) \/ HoldsExclusive(g))
         /\ NextOp(g).op = "ext" => (~HoldsShared(g) /\ ~HoldsExclusive(g))
  /\ lockW # "none" => lockR = {}
  /\ \A g \in Goroutines : ~InCall(g) => (~HoldsShared(g) /\ ~HoldsExclusive(g))

\* a worker downloads with the lock free while the other worker reads the map
\* under the shared lock and the sweep of utils.go removes a file
C20_Witness ==
  /\ lVariant = "utils"
  /\ InCall("worker1") /\ NextOp("worker1") = Op("ext", "download")
  /\ InCall("worker2") /\ NextOp("worker2") = Op("read", "files") /\ HoldsShared("worker2")
  /\ InCall("sweep") /\ NextOp("sweep") = Op("ext", "remove") /\ cleanupHeld = "sweep"

(***************************************************************************)
(* Key sets of the two maps                                                *)
(***************************************************************************)
\* C22: in every reachable state of the cache the path map and the
\* last-access map have the same keys: no identifier has a timestamp without
\* a path, or a path without a timestamp.
C22_SameKeySet == DOMAIN files = DOMAIN lastAccess

(***************************************************************************)
(* Orphaned cache files                                                    *)
(***************************************************************************)
\* a file in the cache directory that no entry the sweep scans points to
Orphan(p) ==
  /\ disk[p].exists
  /\ ~\E id \in DOMAIN files \cap DOMAIN lastAccess : files[id] = p

\* C21: under fair scheduling of the requests in flight, the sweep and the
\* deferred invalidations, no file stays in the cache directory for ever
\* without a mapping that a later sweep can expire.
C21_NoOrphanForEver == \A p \in Paths : []<>(~Orphan(p))

====
